---- MODULE Spec2Model ----
(***************************************************************************)
(* A model of the Gmail assistant: the message analysis pipeline of        *)
(* run_assistant (src/assistant.py) and the trigger endpoint               *)
(* process_emails (src/main.py).                                           *)
(*                                                                         *)
(* Texts that the code inspects (gateway replies, reply drafts, the        *)
(* markers it searches for) are sequences of one-character strings, so     *)
(* that lower(), strip(), startswith(), endswith() and the `in` substring  *)
(* test are computed on them as Python computes them.  A message body is   *)
(* only ever measured, trimmed and sliced; it is kept as three run         *)
(* lengths (leading whitespace, a core without whitespace, trailing        *)
(* whitespace), on which len(), strip() and body[:n] are exact.            *)
(***************************************************************************)
EXTENDS Integers, Sequences, FiniteSets, TLC

\* ------------------------------------------------------------------------
\* Python string operations on texts (sequences of characters)
\* ------------------------------------------------------------------------

UpperCase ==
    <<"A","B","C","D","E","F","G","H","I","J","K","L","M",
      "N","O","P","Q","R","S","T","U","V","W","X","Y","Z">>

LowerCase ==
    <<"a","b","c","d","e","f","g","h","i","j","k","l","m",
      "n","o","p","q","r","s","t","u","v","w","x","y","z">>

Whitespace ==
    {" ", "\t", "\n", "\r"}

\* str.lower() on one character
LowerChar(c) ==
    IF \E i \in 1..Len(UpperCase) : UpperCase[i] = c
    THEN LowerCase[CHOOSE i \in 1..Len(UpperCase) : UpperCase[i] = c]
    ELSE c

\* str.lower()
Lower(t) ==
    [i \in 1..Len(t) |-> LowerChar(t[i])]

\* str.strip(): drops the whitespace at both ends
Strip(t) ==
    LET keep == {i \in 1..Len(t) : t[i] \notin Whitespace}
        Lo == CHOOSE i \in keep : \A j \in keep : i <= j
        Hi == CHOOSE i \in keep : \A j \in keep : j <= i
    IN  IF keep = {} THEN <<>> ELSE SubSeq(t, Lo, Hi)

\* needle in hay (substring test)
Contains(hay, needle) ==
    \E i \in 0..(Len(hay) - Len(needle)) : SubSeq(hay, i + 1, i + Len(needle)) = needle

\* str.startswith
StartsWith(t, p) ==
    Len(p) <= Len(t) /\ SubSeq(t, 1, Len(p)) = p

\* str.endswith
EndsWith(t, p) ==
    Len(p) <= Len(t) /\ SubSeq(t, Len(t) - Len(p) + 1, Len(t)) = p

\* x in list
InList(x, list) ==
    \E i \in 1..Len(list) : list[i] = x

\* any(p in text for p in phrases)
AnyContained(phrases, text) ==
    \E i \in 1..Len(phrases) : Contains(text, phrases[i])

\* any(cmd in commands for cmd in wanted)
AnyCommand(wanted, commands) ==
    \E i \in 1..Len(wanted) : InList(wanted[i], commands)

Min(a, b) ==
    IF a <= b THEN a ELSE b

Max(a, b) ==
    IF a >= b THEN a ELSE b

\* ------------------------------------------------------------------------
\* Sentinels and markers of the pipeline
\* ------------------------------------------------------------------------

\* NON_ACTIONABLE = '[Executive Review: Non-actionable communication]'   (the drafter's guard for no commands)
NON_ACTIONABLE ==
    <<"[","E","x","e","c","u","t","i","v","e"," ","R","e","v","i","e","w",":"," ","N","o","n",
      "-","a","c","t","i","o","n","a","b","l","e"," ","c","o","m","m","u","n","i","c","a","t",
      "i","o","n","]">>

\* INSUFFICIENT_CONTENT = '[Review: Insufficient content for response]'   (the drafter's guard for a short body)
INSUFFICIENT_CONTENT ==
    <<"[","R","e","v","i","e","w",":"," ","I","n","s","u","f","f","i","c","i","e","n","t"," ",
      "c","o","n","t","e","n","t"," ","f","o","r"," ","r","e","s","p","o","n","s","e","]">>

\* UNAVAILABLE_HEAD = '[AI Service Unavailable: '   (the gateway's failure sentinel, before str(e))
UNAVAILABLE_HEAD ==
    <<"[","A","I"," ","S","e","r","v","i","c","e"," ","U","n","a","v","a","i","l","a","b","l",
      "e",":"," ">>

\* AI_SERVICE_PREFIX = '[AI Service'   (what the stages test a reply for)
AI_SERVICE_PREFIX ==
    <<"[","A","I"," ","S","e","r","v","i","c","e">>

\* MARK_EXECUTIVE_SKIP = '[executive skip'   (searched by the confidence scorer)
MARK_EXECUTIVE_SKIP ==
    <<"[","e","x","e","c","u","t","i","v","e"," ","s","k","i","p">>

\* MARK_AI_SERVICE = '[ai service'   (searched by the scorer and the action label)
MARK_AI_SERVICE ==
    <<"[","a","i"," ","s","e","r","v","i","c","e">>

\* MARK_SKIP = '[skip'   (searched by the action label)
MARK_SKIP ==
    <<"[","s","k","i","p">>

\* strategic language indicators
strategic_terms ==
    << <<"p","a","r","t","n","e","r","s","h","i","p">>,
       <<"s","t","r","a","t","e","g","i","c">>,
       <<"i","n","n","o","v","a","t","i","o","n">>,
       <<"c","o","l","l","a","b","o","r","a","t","i","o","n">>,
       <<"v","a","l","u","e">>,
       <<"s","o","l","u","t","i","o","n">>,
       <<"e","n","t","e","r","p","r","i","s","e">> >>

\* executive communication markers
exec_markers ==
    << <<"l","o","o","k"," ","f","o","r","w","a","r","d">>,
       <<"n","e","x","t"," ","s","t","e","p","s">>,
       <<"o","p","p","o","r","t","u","n","i","t","y">>,
       <<"d","i","s","c","u","s","s"," ","f","u","r","t","h","e","r">>,
       <<"s","c","h","e","d","u","l","e">>,
       <<"e","x","p","l","o","r","e">> >>

\* ------------------------------------------------------------------------
\* The command taxonomy
\* ------------------------------------------------------------------------

EXECUTIVE_COMMAND_LIST ==
    << "strategic_partnership", "investment_inquiry", "board_communication", "executive_meeting",
       "contract_negotiation", "merger_acquisition", "funding_discussion", "investor_relations",
       "vip_client_request", "enterprise_demo", "custom_solution", "strategic_consultation",
       "executive_escalation", "premium_support", "white_glove_service",
       "send_invoice", "billing_question", "pricing_request", "follow_up", "general_question",
       "account_closure", "update_contact", "change_account_details", "duplicate_request",
       "partnership_request", "media_inquiry", "speaking_engagement", "conference_invite",
       "press_release", "analyst_briefing", "thought_leadership",
       "executive_recruitment", "job_application", "referral_submission",
       "interview_schedule_request", "talent_acquisition", "leadership_hiring",
       "legal_inquiry", "contract_request", "compliance_question", "regulatory_update",
       "intellectual_property", "data_governance", "privacy_policy_question",
       "technical_partnership", "ai_collaboration", "innovation_project", "research_proposal",
       "technology_demo", "proof_of_concept", "beta_program",
       "technical_issue", "access_request", "security_alert", "system_integration",
       "enterprise_deployment", "training_request",
       "forward_to_leadership", "schedule_executive_review", "escalate_to_ceo", "no_action" >>

\* ------------------------------------------------------------------------
\* Message bodies: run lengths of a text  ws^lead . core . ws^trail
\* ------------------------------------------------------------------------

Body(lead, core, trail) ==
    [lead |-> lead, core |-> core, trail |-> trail]

\* a body without a core is whitespace only: all of it counts as leading
Normal(b) ==
    IF b.core = 0 THEN Body(b.lead + b.trail, 0, 0) ELSE b

\* len(body)
BodyLen(b) ==
    b.lead + b.core + b.trail

\* body.strip()
BodyStrip(b) ==
    Body(0, b.core, 0)

\* body[:n]
BodySlice(b, n) ==
    LET lead == Min(b.lead, n)
        core == Min(b.core, n - lead)
        trail == Min(b.trail, n - lead - core)
    IN  Normal(Body(lead, core, trail))

\* `not body`: the empty string is falsy
BodyEmpty(b) ==
    BodyLen(b) = 0

\* ------------------------------------------------------------------------
\* Language model gateway
\* ------------------------------------------------------------------------

\* What the backend does with one request: it raises (text is str(e)), or it
\* answers (text is response.choices[0].message.content).
Raises(err) ==
    [raises |-> TRUE, text |-> err]

Answers(content) ==
    [raises |-> FALSE, text |-> content]

\* premium_openai_call: the stripped content, or the failure sentinel
premium_openai_call(outcome) ==
    IF outcome.raises
    THEN UNAVAILABLE_HEAD \o outcome.text \o <<"]">>
    ELSE Strip(outcome.text)

\* ------------------------------------------------------------------------
\* Confidence scorer
\* ------------------------------------------------------------------------

\* the scorer with a baseline of 50
calculate_executive_confidence_low_baseline(draft, commands) ==
    IF \/ draft = <<>>
       \/ Contains(Lower(draft), MARK_EXECUTIVE_SKIP)
       \/ Contains(Lower(draft), MARK_AI_SERVICE)
    THEN 0
    ELSE IF InList("no_action", commands)
    THEN 25
    ELSE Min(50 + (IF AnyContained(strategic_terms, Lower(draft)) THEN 15 ELSE 0)
                + (IF AnyContained(exec_markers, Lower(draft)) THEN 10 ELSE 0)
                + (IF AnyCommand(<<"strategic_partnership", "investment_inquiry",
                                   "executive_meeting", "vip_client_request">>, commands)
                   THEN 5 ELSE 0),
             100)

\* the scorer without its branch for no_action
calculate_executive_confidence_unbranched(draft, commands) ==
    IF \/ draft = <<>>
       \/ Contains(Lower(draft), MARK_EXECUTIVE_SKIP)
       \/ Contains(Lower(draft), MARK_AI_SERVICE)
    THEN 0
    ELSE Min(70 + (IF AnyContained(strategic_terms, Lower(draft)) THEN 15 ELSE 0)
                + (IF AnyContained(exec_markers, Lower(draft)) THEN 10 ELSE 0)
                + (IF AnyCommand(<<"strategic_partnership", "investment_inquiry",
                                   "executive_meeting", "vip_client_request">>, commands)
                   THEN 5 ELSE 0),
             100)

\* the scorer with a larger strategic bonus and its clamp forgotten
calculate_executive_confidence_unclamped(draft, commands) ==
    IF \/ draft = <<>>
       \/ Contains(Lower(draft), MARK_EXECUTIVE_SKIP)
       \/ Contains(Lower(draft), MARK_AI_SERVICE)
    THEN 0
    ELSE IF InList("no_action", commands)
    THEN 25
    ELSE LET base == 70
             strategic == IF AnyContained(strategic_terms, Lower(draft)) THEN 20 ELSE 0
             markers == IF AnyContained(exec_markers, Lower(draft)) THEN 10 ELSE 0
             premium == IF AnyCommand(<<"strategic_partnership", "investment_inquiry",
                                        "executive_meeting", "vip_client_request">>, commands)
                        THEN 5 ELSE 0
         IN  base + strategic + markers + premium

calculate_executive_confidence(draft, commands) ==
    IF \/ draft = <<>>
       \/ Contains(Lower(draft), MARK_EXECUTIVE_SKIP)
       \/ Contains(Lower(draft), MARK_AI_SERVICE)
    THEN 0
    ELSE IF InList("no_action", commands)
    THEN 25
    ELSE LET base == 70
             strategic == IF AnyContained(strategic_terms, Lower(draft)) THEN 15 ELSE 0
             markers == IF AnyContained(exec_markers, Lower(draft)) THEN 10 ELSE 0
             premium == IF AnyCommand(<<"strategic_partnership", "investment_inquiry",
                                        "executive_meeting", "vip_client_request">>, commands)
                        THEN 5 ELSE 0
         IN  Min(base + strategic + markers + premium, 100)

\* the "Confidence Score" property of the synced record
SyncConfidence(reply_confidence) ==
    Min(100, Max(0, reply_confidence))

\* ------------------------------------------------------------------------
\* Reply drafter
\* ------------------------------------------------------------------------

\* the drafter without its guard on the commands
generate_executive_responses_unguarded(body, commands, o1, o2) ==
    IF BodyEmpty(body) \/ BodyLen(BodyStrip(body)) < 10
    THEN [draft1 |-> INSUFFICIENT_CONTENT, draft2 |-> INSUFFICIENT_CONTENT, calls |-> <<>>]
    ELSE [draft1 |-> premium_openai_call(o1),
          draft2 |-> premium_openai_call(o2),
          calls |-> <<3, 5>>]

\* the drafter that gives up on the second draft when the first request
\* failed
generate_executive_responses_coupled(body, commands, o1, o2) ==
    IF commands = <<>> \/ InList("no_action", commands)
    THEN [draft1 |-> NON_ACTIONABLE, draft2 |-> NON_ACTIONABLE, calls |-> <<>>]
    ELSE IF BodyEmpty(body) \/ BodyLen(BodyStrip(body)) < 10
    THEN [draft1 |-> INSUFFICIENT_CONTENT, draft2 |-> INSUFFICIENT_CONTENT, calls |-> <<>>]
    ELSE IF o1.raises
    THEN [draft1 |-> premium_openai_call(o1), draft2 |-> premium_openai_call(o1),
          calls |-> <<3>>]
    ELSE [draft1 |-> premium_openai_call(o1),
          draft2 |-> premium_openai_call(o2),
          calls |-> <<3, 5>>]

\* o1, o2: what the backend does with the first and the second drafting
\* request.  calls: the temperatures of the gateway calls made (in tenths).
generate_executive_responses(body, commands, o1, o2) ==
    IF commands = <<>> \/ InList("no_action", commands)
    THEN [draft1 |-> NON_ACTIONABLE, draft2 |-> NON_ACTIONABLE, calls |-> <<>>]
    ELSE IF BodyEmpty(body) \/ BodyLen(BodyStrip(body)) < 10
    THEN [draft1 |-> INSUFFICIENT_CONTENT, draft2 |-> INSUFFICIENT_CONTENT, calls |-> <<>>]
    ELSE [draft1 |-> premium_openai_call(o1),
          draft2 |-> premium_openai_call(o2),
          calls |-> <<3, 5>>]

\* ------------------------------------------------------------------------
\* Intent classifier
\* ------------------------------------------------------------------------

Digits ==
    {"0", "1", "2", "3", "4", "5", "6", "7", "8", "9"}

Quotes ==
    {"\"", "'"}

RECURSIVE Join(_)
\* the string spelled by a text
Join(t) ==
    IF t = <<>> THEN "" ELSE Head(t) \o Join(Tail(t))

RECURSIVE SplitComma(_)
\* the pieces of a text between its commas
SplitComma(t) ==
    IF ~InList(",", t)
    THEN <<t>>
    ELSE LET k == CHOOSE i \in 1..Len(t) : t[i] = "," /\ \A j \in 1..(i - 1) : t[j] # ","
         IN  <<SubSeq(t, 1, k - 1)>> \o SplitComma(SubSeq(t, k + 1, Len(t)))

\* a quoted string without quotes or escapes inside
IsStringLiteral(it) ==
    /\ Len(it) >= 2
    /\ it[1] \in Quotes
    /\ it[Len(it)] = it[1]
    /\ \A j \in 2..(Len(it) - 1) : it[j] \notin Quotes \cup {"\\", "\n"}

\* a decimal integer
IsNumber(it) ==
    /\ Len(it) >= 1
    /\ \A j \in 1..Len(it) : it[j] \in Digits
    /\ (Len(it) = 1 \/ it[1] # "0")

\* eval(result) for a text "[" ... "]" whose elements are string literals and
\* integers: the list of its values, or an exception for anything else.
\* A string element is [str |-> TRUE, v |-> the string]; a number is not a
\* string and equals no command.
EvalList(result) ==
    LET inner == SubSeq(result, 2, Len(result) - 1)
        pieces == SplitComma(inner)
        items == IF Len(pieces) > 1 /\ Strip(pieces[Len(pieces)]) = <<>>
                 THEN SubSeq(pieces, 1, Len(pieces) - 1)
                 ELSE pieces
        Item(i) == Strip(items[i])
    IN  IF Strip(inner) = <<>>
        THEN [raises |-> FALSE, value |-> <<>>]
        ELSE IF \A i \in 1..Len(items) : IsStringLiteral(Item(i)) \/ IsNumber(Item(i))
        THEN [raises |-> FALSE,
              value |-> [i \in 1..Len(items) |->
                            IF IsStringLiteral(Item(i))
                            THEN [str |-> TRUE, v |-> Join(SubSeq(Item(i), 2, Len(Item(i)) - 1))]
                            ELSE [str |-> FALSE, v |-> Join(Item(i))]]]
        ELSE [raises |-> TRUE, value |-> <<>>]

RECURSIVE FilterCommands(_)
\* [cmd for cmd in commands if cmd in EXECUTIVE_COMMAND_LIST]
FilterCommands(values) ==
    IF values = <<>>
    THEN <<>>
    ELSE LET x == Head(values)
         IN  (IF x.str /\ InList(x.v, EXECUTIVE_COMMAND_LIST) THEN <<x.v>> ELSE <<>>)
             \o FilterCommands(Tail(values))

\* `xs or ["no_action"]`
OrNoAction(xs) ==
    IF xs = <<>> THEN <<"no_action">> ELSE xs

\* the classifier that escalates a record it could not classify
classify_executive_commands_escalates(subjectEmpty, summaryEmpty, outcome) ==
    IF subjectEmpty /\ summaryEmpty
    THEN [commands |-> <<"no_action">>, calls |-> 0, raised |-> FALSE]
    ELSE LET result == premium_openai_call(outcome)
             ev == EvalList(result)
         IN  [commands |->
                 IF StartsWith(result, AI_SERVICE_PREFIX)
                 THEN <<"escalate_to_ceo">>
                 ELSE IF StartsWith(result, <<"[">>) /\ EndsWith(result, <<"]">>)
                 THEN IF ev.raises THEN <<"no_action">>
                      ELSE OrNoAction(FilterCommands(ev.value))
                 ELSE <<"no_action">>,
              calls |-> 1,
              raised |-> FALSE]

\* the classifier with the taxonomy filter forgotten: every string the reply
\* lists is returned
classify_executive_commands_unfiltered(subjectEmpty, summaryEmpty, outcome) ==
    IF subjectEmpty /\ summaryEmpty
    THEN [commands |-> <<"no_action">>, calls |-> 0, raised |-> FALSE]
    ELSE LET result == premium_openai_call(outcome)
             ev == EvalList(result)
         IN  [commands |->
                 IF StartsWith(result, AI_SERVICE_PREFIX)
                 THEN <<"no_action">>
                 ELSE IF StartsWith(result, <<"[">>) /\ EndsWith(result, <<"]">>)
                 THEN IF ev.raises THEN <<"no_action">>
                      ELSE OrNoAction([i \in 1..Len(ev.value) |-> ev.value[i].v])
                 ELSE <<"no_action">>,
              calls |-> 1,
              raised |-> FALSE]

\* subjectEmpty, summaryEmpty: `not subject`, `not summary`.  outcome: what the
\* backend does with the classification request.  raised: an exception left
\* the function.
classify_executive_commands(subjectEmpty, summaryEmpty, outcome) ==
    IF subjectEmpty /\ summaryEmpty
    THEN [commands |-> <<"no_action">>, calls |-> 0, raised |-> FALSE]
    ELSE LET result == premium_openai_call(outcome)
             ev == EvalList(result)
         IN  [commands |->
                 IF StartsWith(result, AI_SERVICE_PREFIX)
                 THEN <<"no_action">>
                 ELSE IF StartsWith(result, <<"[">>) /\ EndsWith(result, <<"]">>)
                 THEN IF ev.raises THEN <<"no_action">>
                      ELSE OrNoAction(FilterCommands(ev.value))
                 ELSE <<"no_action">>,
              calls |-> 1,
              raised |-> FALSE]

\* ------------------------------------------------------------------------
\* Routing resolver
\* ------------------------------------------------------------------------

\* the team one command appends, "" for none (the if/elif chain)
TeamOf(cmd) ==
    IF cmd \in {"strategic_partnership", "investment_inquiry", "merger_acquisition"}
    THEN "Strategy"
    ELSE IF cmd \in {"vip_client_request", "enterprise_demo", "custom_solution"}
    THEN "Enterprise Sales"
    ELSE IF cmd \in {"executive_recruitment", "leadership_hiring"}
    THEN "Enterprise HR"
    ELSE IF cmd \in {"legal_inquiry", "contract_negotiation", "compliance_question"}
    THEN "Legal"
    ELSE IF cmd \in {"technical_partnership", "ai_collaboration", "innovation_project"}
    THEN "Innovation"
    ELSE IF cmd \in {"media_inquiry", "speaking_engagement", "thought_leadership"}
    THEN "Marketing"
    ELSE ""

RECURSIVE AppendedTeams(_)
\* teams after the loop over the commands: one entry per command that has a
\* team, repeated as often as it was appended
AppendedTeams(commands) ==
    IF commands = <<>>
    THEN <<>>
    ELSE (IF TeamOf(Head(commands)) = "" THEN <<>> ELSE <<TeamOf(Head(commands))>>)
             \o AppendedTeams(Tail(commands))

Range(s) ==
    {s[i] : i \in 1..Len(s)}

\* list(set(teams)): the elements of teams once each, in an order the
\* language does not specify
ListOfSet(teams) ==
    LET S == Range(teams)
    IN  {t \in [1..Cardinality(S) -> S] : Range(t) = S}

\* the routing resolver that returns its list with the repetitions in it
assign_executive_team_repeating(commands) ==
    IF AppendedTeams(commands) = <<>>
    THEN {<<"Executive Office">>}
    ELSE {AppendedTeams(commands)}

\* the routing resolver with a branch that sends the billing commands to
\* the sales team
assign_executive_team_billing(commands) ==
    LET billing == IF \E i \in 1..Len(commands) :
                          commands[i] \in {"send_invoice", "billing_question"}
                   THEN <<"Enterprise Sales">>
                   ELSE <<>>
        lists == ListOfSet(AppendedTeams(commands) \o billing)
    IN  IF lists = {<<>>} THEN {<<"Executive Office">>} ELSE lists

\* the lists assign_executive_team(commands) may return
assign_executive_team(commands) ==
    LET lists == ListOfSet(AppendedTeams(commands))
    IN  IF lists = {<<>>} THEN {<<"Executive Office">>} ELSE lists

\* the names in the multi-select property made from the list of teams
TeamNames(commands) ==
    UNION {Range(t) : t \in assign_executive_team(commands)}

\* the name of the action label; draft1 is email.get("reply_draft_1", "")
determine_executive_action(draft1, commands) ==
    IF Contains(Lower(draft1), MARK_SKIP)
    THEN "Skip"
    ELSE IF Contains(Lower(draft1), MARK_AI_SERVICE)
    THEN "AI Review Required"
    ELSE IF AnyCommand(<<"strategic_partnership", "investment_inquiry", "executive_meeting">>,
                       commands)
    THEN "Executive Priority"
    ELSE "Response Drafted"

\* ------------------------------------------------------------------------
\* Content extractor
\* ------------------------------------------------------------------------

\* CONTENT_EXTRACTION_REQUIRED = '[Executive Review: Content extraction required]'   (the body when the top-level payload fails to decode)
CONTENT_EXTRACTION_REQUIRED ==
    <<"[","E","x","e","c","u","t","i","v","e"," ","R","e","v","i","e","w",":"," ","C","o","n",
      "t","e","n","t"," ","e","x","t","r","a","c","t","i","o","n"," ","r","e","q","u","i","r",
      "e","d","]">>

\* NO_READABLE_CONTENT = '[Executive Review: No readable content available]'   (the body when there is no payload at all)
NO_READABLE_CONTENT ==
    <<"[","E","x","e","c","u","t","i","v","e"," ","R","e","v","i","e","w",":"," ","N","o"," ",
      "r","e","a","d","a","b","l","e"," ","c","o","n","t","e","n","t"," ","a","v","a","i","l",
      "a","b","l","e","]">>

\* A base64url payload: absent (None or ""), or present and then either
\* decoding to a text or making urlsafe_b64decode raise.
NoData ==
    [present |-> FALSE, decodes |-> FALSE, text |-> Body(0, 0, 0)]

BadData ==
    [present |-> TRUE, decodes |-> FALSE, text |-> Body(0, 0, 0)]

Data(text) ==
    [present |-> TRUE, decodes |-> TRUE, text |-> text]

\* a leaf of the part tree
Leaf(mimeType, data) ==
    [mimeType |-> mimeType, data |-> data, hasParts |-> FALSE, parts |-> <<>>]

\* a node that carries nested parts
Multipart(mimeType, parts) ==
    [mimeType |-> mimeType, data |-> NoData, hasParts |-> TRUE, parts |-> parts]

EmptyText ==
    Body(0, 0, 0)

RECURSIVE extract_text_from_parts_gives_up(_)
\* the extractor that ends its search at a payload that fails to decode
extract_text_from_parts_gives_up(parts) ==
    IF parts = <<>>
    THEN EmptyText
    ELSE LET part == Head(parts)
             nested == extract_text_from_parts_gives_up(part.parts)
         IN  IF part.mimeType = "text/plain"
             THEN IF part.data.present
                  THEN IF part.data.decodes THEN part.data.text ELSE EmptyText
                  ELSE extract_text_from_parts_gives_up(Tail(parts))
             ELSE IF part.hasParts /\ ~BodyEmpty(nested)
             THEN nested
             ELSE extract_text_from_parts_gives_up(Tail(parts))

RECURSIVE extract_text_from_parts(_)
extract_text_from_parts(parts) ==
    IF parts = <<>>
    THEN EmptyText
    ELSE LET part == Head(parts)
             nested == extract_text_from_parts(part.parts)
         IN  IF part.mimeType = "text/plain"
             THEN IF part.data.present /\ part.data.decodes
                  THEN part.data.text
                  ELSE extract_text_from_parts(Tail(parts))
             ELSE IF part.hasParts /\ ~BodyEmpty(nested)
             THEN nested
             ELSE extract_text_from_parts(Tail(parts))

\* the body of a fetched message without the placeholders
MessageBody_bare(payload) ==
    LET body == extract_text_from_parts(payload.parts)
    IN  IF ~BodyEmpty(body)
        THEN body
        ELSE IF payload.body.present /\ payload.body.decodes
        THEN payload.body.text
        ELSE EmptyText

\* the body of a fetched message: the extractor's text, else the top-level
\* payload, else a placeholder
MessageBody(payload) ==
    LET body == extract_text_from_parts(payload.parts)
    IN  IF ~BodyEmpty(body)
        THEN body
        ELSE IF payload.body.present
        THEN IF payload.body.decodes
             THEN payload.body.text
             ELSE Body(0, Len(CONTENT_EXTRACTION_REQUIRED), 0)
        ELSE Body(0, Len(NO_READABLE_CONTENT), 0)

\* ------------------------------------------------------------------------
\* Language detector, summarizer, tone analyzer
\* ------------------------------------------------------------------------

\* ENGLISH = 'English'   (the language detector's default)
ENGLISH ==
    <<"E","n","g","l","i","s","h">>

\* NEUTRAL = 'neutral'   (the tone analyzer's default)
NEUTRAL ==
    <<"n","e","u","t","r","a","l">>

\* the tone labels the analyzer accepts
valid_tones ==
    << <<"p","o","s","i","t","i","v","e">>,
       <<"n","e","u","t","r","a","l">>,
       <<"n","e","g","a","t","i","v","e">>,
       <<"u","r","g","e","n","t">>,
       <<"o","p","p","o","r","t","u","n","i","t","y">> >>

\* detect_language_premium: o is what the backend does with the request
detect_language_premium(text, o) ==
    IF BodyEmpty(text) \/ BodyLen(BodyStrip(text)) < 10
    THEN [language |-> ENGLISH, calls |-> 0]
    ELSE LET result == premium_openai_call(o)
         IN  [language |-> IF StartsWith(result, AI_SERVICE_PREFIX) THEN ENGLISH ELSE result,
              calls |-> 1]

\* A summary is the fixed "minimal content" sentence, the model's text, or
\* the fallback sentence around body[:100].
MinimalSummary ==
    [kind |-> "minimal", text |-> <<>>, excerpt |-> EmptyText]

ModelSummary(text) ==
    [kind |-> "model", text |-> text, excerpt |-> EmptyText]

FallbackSummary(body) ==
    [kind |-> "fallback", text |-> <<>>, excerpt |-> BodySlice(body, 100)]

\* `not summary`
SummaryEmpty(summary) ==
    summary.kind = "model" /\ summary.text = <<>>

\* the summarizer that hands on whatever the gateway returned
executive_email_summary_unchecked(body, o) ==
    IF BodyEmpty(body) \/ BodyLen(BodyStrip(body)) < 20
    THEN [summary |-> MinimalSummary, calls |-> 0]
    ELSE [summary |-> ModelSummary(premium_openai_call(o)), calls |-> 1]

executive_email_summary(body, o) ==
    IF BodyEmpty(body) \/ BodyLen(BodyStrip(body)) < 20
    THEN [summary |-> MinimalSummary, calls |-> 0]
    ELSE LET result == premium_openai_call(o)
         IN  [summary |-> IF StartsWith(result, AI_SERVICE_PREFIX)
                          THEN FallbackSummary(body)
                          ELSE ModelSummary(result),
              calls |-> 1]

analyze_business_tone(body, o) ==
    IF BodyEmpty(body) \/ BodyLen(BodyStrip(body)) < 10
    THEN [tone |-> NEUTRAL, calls |-> 0]
    ELSE LET tone == Strip(Lower(premium_openai_call(o)))
         IN  [tone |-> IF InList(tone, valid_tones) THEN tone ELSE NEUTRAL,
              calls |-> 1]

\* ------------------------------------------------------------------------
\* Sample texts: backend answers and error texts
\* ------------------------------------------------------------------------

\* ErrTimeout = 'timeout'   (str(e) of a failed request)
ErrTimeout ==
    <<"t","i","m","e","o","u","t">>

\* ReplySkipToken = '[SKIP]'   (the skip token the drafting prompt asks for)
ReplySkipToken ==
    <<"[","S","K","I","P","]">>

\* ReplySkipPadded = ' [skip]\n'
ReplySkipPadded ==
    <<" ","[","s","k","i","p","]","\n">>

\* ReplyPlain = 'Thank you for your note.'
ReplyPlain ==
    <<"T","h","a","n","k"," ","y","o","u"," ","f","o","r"," ","y","o","u","r"," ","n","o","t",
      "e",".">>

\* ReplyStrategic = 'Our Enterprise team has a fix.'
ReplyStrategic ==
    <<"O","u","r"," ","E","n","t","e","r","p","r","i","s","e"," ","t","e","a","m"," ","h","a",
      "s"," ","a"," ","f","i","x",".">>

\* ReplyMarker = 'Let us Schedule a call.'
ReplyMarker ==
    <<"L","e","t"," ","u","s"," ","S","c","h","e","d","u","l","e"," ","a"," ","c","a","l","l",
      ".">>

\* ReplyFull = 'We value this and look forward to it.'
ReplyFull ==
    <<"W","e"," ","v","a","l","u","e"," ","t","h","i","s"," ","a","n","d"," ","l","o","o","k",
      " ","f","o","r","w","a","r","d"," ","t","o"," ","i","t",".">>

\* ReplyQuotesSentinel = 'Re: [Executive Skip] noted'
ReplyQuotesSentinel ==
    <<"R","e",":"," ","[","E","x","e","c","u","t","i","v","e"," ","S","k","i","p","]"," ","n",
      "o","t","e","d">>

\* ListInvoice = '["send_invoice", "billing_question"]'
ListInvoice ==
    <<"[","\"","s","e","n","d","_","i","n","v","o","i","c","e","\"",","," ","\"","b","i","l",
      "l","i","n","g","_","q","u","e","s","t","i","o","n","\"","]">>

\* ListPartnership = "['strategic_partnership']"
ListPartnership ==
    <<"[","'","s","t","r","a","t","e","g","i","c","_","p","a","r","t","n","e","r","s","h","i",
      "p","'","]">>

\* ListNoAction = '["no_action"]'
ListNoAction ==
    <<"[","\"","n","o","_","a","c","t","i","o","n","\"","]">>

\* ListMixed = '["no_action", "follow_up"]'
ListMixed ==
    <<"[","\"","n","o","_","a","c","t","i","o","n","\"",","," ","\"","f","o","l","l","o","w",
      "_","u","p","\"","]">>

\* ListUnknown = '["send_invoice", "make_coffee"]'
ListUnknown ==
    <<"[","\"","s","e","n","d","_","i","n","v","o","i","c","e","\"",","," ","\"","m","a","k",
      "e","_","c","o","f","f","e","e","\"","]">>

\* ListOnlyUnknown = '["make_coffee", 7]'
ListOnlyUnknown ==
    <<"[","\"","m","a","k","e","_","c","o","f","f","e","e","\"",","," ","7","]">>

\* ListEmpty = '[]'
ListEmpty ==
    <<"[","]">>

\* ListBareName = '[send_invoice]'   (eval raises NameError)
ListBareName ==
    <<"[","s","e","n","d","_","i","n","v","o","i","c","e","]">>

\* ListBroken = '["send_invoice",,]'   (eval raises SyntaxError)
ListBroken ==
    <<"[","\"","s","e","n","d","_","i","n","v","o","i","c","e","\"",",",",","]">>

\* ListUnclosed = '["send_invoice"'
ListUnclosed ==
    <<"[","\"","s","e","n","d","_","i","n","v","o","i","c","e","\"">>

\* ProseReply = 'No action is required.'
ProseReply ==
    <<"N","o"," ","a","c","t","i","o","n"," ","i","s"," ","r","e","q","u","i","r","e","d",".">>

\* ------------------------------------------------------------------------
\* Bounded inputs of the stage functions
\* ------------------------------------------------------------------------

SampleCommands ==
    { <<"no_action">>,
      <<"send_invoice">>,
      <<"send_invoice", "billing_question">>,
      <<"strategic_partnership">>,
      <<"vip_client_request", "follow_up">>,
      <<"no_action", "follow_up">>,
      <<"follow_up", "follow_up">> }

SampleBodies ==
    { Body(4, 0, 0), Body(1, 9, 1), Body(0, 10, 0), Body(2, 30, 2) }

DraftOutcomes ==
    { Raises(ErrTimeout), Answers(<<>>), Answers(ReplySkipToken), Answers(ReplySkipPadded),
      Answers(ReplyPlain), Answers(ReplyStrategic), Answers(ReplyMarker), Answers(ReplyFull),
      Answers(ReplyQuotesSentinel) }

\* a backend outcome for the classification request, with the taxonomy
\* members Python finds in it (in order)
ClassifyOutcomes ==
    { [o |-> Raises(ErrTimeout), members |-> <<>>],
      [o |-> Answers(<<>>), members |-> <<>>],
      [o |-> Answers(ProseReply), members |-> <<>>],
      [o |-> Answers(ListUnclosed), members |-> <<>>],
      [o |-> Answers(ListBareName), members |-> <<>>],
      [o |-> Answers(ListBroken), members |-> <<>>],
      [o |-> Answers(ListEmpty), members |-> <<>>],
      [o |-> Answers(ListOnlyUnknown), members |-> <<>>],
      [o |-> Answers(ListUnknown), members |-> <<"send_invoice">>],
      [o |-> Answers(ListInvoice), members |-> <<"send_invoice", "billing_question">>],
      [o |-> Answers(ListPartnership), members |-> <<"strategic_partnership">>],
      [o |-> Answers(ListNoAction), members |-> <<"no_action">>],
      [o |-> Answers(ListMixed), members |-> <<"no_action", "follow_up">>] }

\* the longest list of commands the routing resolver is applied to
MaxCommands ==
    3

\* commands of two teams, of one team twice, of no team
RoutedCommands ==
    {"strategic_partnership", "investment_inquiry", "legal_inquiry", "send_invoice",
     "billing_question", "no_action"}

RECURSIVE ListsUpTo(_, _)
\* the lists of at most n elements of S
ListsUpTo(S, n) ==
    IF n = 0
    THEN {<<>>}
    ELSE LET shorter == ListsUpTo(S, n - 1)
         IN  shorter \cup {Append(l, x) : l \in shorter, x \in S}

CommandLists ==
    ListsUpTo(RoutedCommands, MaxCommands)
\* SaysJapanese = 'Japanese'
SaysJapanese ==
    <<"J","a","p","a","n","e","s","e">>

\* SaysEnglish = ' English\n'
SaysEnglish ==
    <<" ","E","n","g","l","i","s","h","\n">>

\* SaysInvoiceDue = 'Invoice 221 is due.'
SaysInvoiceDue ==
    <<"I","n","v","o","i","c","e"," ","2","2","1"," ","i","s"," ","d","u","e",".">>

\* SaysPartnerAsks = 'A partner asks to meet.'
SaysPartnerAsks ==
    <<"A"," ","p","a","r","t","n","e","r"," ","a","s","k","s"," ","t","o"," ","m","e","e","t",
      ".">>

\* SaysUrgent = 'Urgent'
SaysUrgent ==
    <<"U","r","g","e","n","t">>

\* SaysVeryPositive = 'Very positive!'
SaysVeryPositive ==
    <<"V","e","r","y"," ","p","o","s","i","t","i","v","e","!">>

\* ------------------------------------------------------------------------
\* Messages of the inbox
\* ------------------------------------------------------------------------

\* A message as the mail source holds it.  trouble: "fetch" when
\* messages().get raises for it, "parse" when reading its headers or its
\* date raises, "none" otherwise.  says: what the model answers to each
\* request about this message when the backend is up.
Message(trouble, subjectEmpty, parts, body, says) ==
    [trouble |-> trouble, subjectEmpty |-> subjectEmpty,
     payload |-> [parts |-> parts, body |-> body], says |-> says]

SaysInvoice ==
    [language |-> SaysEnglish, summary |-> SaysInvoiceDue, commands |-> ListInvoice,
     draft1 |-> ReplyFull, draft2 |-> ReplyPlain, tone |-> SaysUrgent]

SaysPartner ==
    [language |-> SaysJapanese, summary |-> SaysPartnerAsks, commands |-> ListPartnership,
     draft1 |-> ReplySkipToken, draft2 |-> ReplyStrategic, tone |-> SaysVeryPositive]

\* a plain-text invoice mail of 30 characters
MsgInvoice ==
    Message("none", FALSE, <<Leaf("text/plain", Data(Body(0, 30, 0)))>>, NoData, SaysInvoice)

\* 15 characters padded with whitespace to 25
MsgShort ==
    Message("none", FALSE, <<Leaf("text/plain", Data(Body(5, 15, 5)))>>, NoData, SaysInvoice)

\* a message the mail source fails to return
MsgGone ==
    Message("fetch", FALSE, <<>>, NoData, SaysInvoice)

\* a message whose headers cannot be read
MsgMalformed ==
    Message("parse", FALSE, <<Leaf("text/plain", Data(Body(0, 30, 0)))>>, NoData, SaysInvoice)

\* a partnership mail: HTML and plain text under multipart/alternative
MsgPartner ==
    Message("none", FALSE,
            <<Multipart("multipart/alternative",
                        <<Leaf("text/html", Data(Body(0, 90, 0))),
                          Leaf("text/plain", Data(Body(2, 40, 1)))>>)>>,
            NoData, SaysPartner)

\* a message without parts and without a top-level payload
MsgNoText ==
    Message("none", FALSE, <<>>, NoData, SaysInvoice)

\* a message whose only text is a top-level payload that fails to decode
MsgBadPayload ==
    Message("none", FALSE, <<Leaf("text/html", Data(Body(0, 90, 0)))>>, BadData, SaysInvoice)

\* 30 characters after 2495 characters of whitespace (blank lines)
MsgPadded ==
    Message("none", FALSE, <<Leaf("text/plain", Data(Body(2495, 30, 0)))>>, NoData,
            SaysInvoice)

\* the messages whose body is a placeholder or is cut by the record
OddTexts ==
    {MsgNoText, MsgBadPayload, MsgPadded}

Templates ==
    {MsgInvoice, MsgShort, MsgGone, MsgMalformed, MsgPartner, MsgNoText, MsgBadPayload,
     MsgPadded}

\* the largest batch the thread list returns
MaxBatch ==
    3

\* the most requests (to the model or to the sync destination) that fail
\* on their own in one run; a sustained model outage is not counted
MaxFaults ==
    1

RECURSIVE SeqsUpTo(_, _)
\* the sequences over S of length at most n
SeqsUpTo(S, n) ==
    IF n = 0
    THEN {<<>>}
    ELSE LET shorter == SeqsUpTo(S, n - 1)
         IN  shorter \cup {Append(s, x) : s \in shorter, x \in S}

\* the environment's settings: each required key present or missing
Environments ==
    { [OPENAI_API_KEY |-> TRUE, NOTION_TOKEN |-> TRUE, NOTION_DB_ID |-> TRUE],
      [OPENAI_API_KEY |-> FALSE, NOTION_TOKEN |-> TRUE, NOTION_DB_ID |-> TRUE],
      [OPENAI_API_KEY |-> TRUE, NOTION_TOKEN |-> FALSE, NOTION_DB_ID |-> TRUE],
      [OPENAI_API_KEY |-> TRUE, NOTION_TOKEN |-> TRUE, NOTION_DB_ID |-> FALSE] }

\* ------------------------------------------------------------------------
\* Part trees of a payload
\* ------------------------------------------------------------------------

\* text/plain leaves: two with text, one whose payload decodes to "" (its
\* bytes are dropped by errors="ignore"), one of whitespace only, one whose
\* payload does not decode, one without a payload
PlainA ==
    Leaf("text/plain", Data(Body(0, 30, 0)))

PlainB ==
    Leaf("text/plain", Data(Body(1, 40, 2)))

PlainEmpty ==
    Leaf("text/plain", Data(EmptyText))

PlainBlank ==
    Leaf("text/plain", Data(Body(3, 0, 0)))

PlainBad ==
    Leaf("text/plain", BadData)

PlainNone ==
    Leaf("text/plain", NoData)

Html ==
    Leaf("text/html", Data(Body(0, 90, 0)))

SampleLeaves ==
    {PlainA, PlainB, PlainEmpty, PlainBlank, PlainBad, PlainNone, Html}

\* the parts nested under a multipart node
SampleBranches ==
    { <<Html, PlainA>>, <<PlainB>>, <<PlainEmpty>>, <<PlainBad, PlainB>>, <<PlainNone>>,
      <<PlainEmpty, PlainA>>, <<Html>>,
      <<Multipart("multipart/alternative", <<Html, PlainB>>)>>,
      <<Multipart("multipart/related", <<PlainBad>>), PlainA>> }

SampleNodes ==
    {Multipart(m, branch) : m \in {"multipart/alternative", "multipart/mixed"},
                            branch \in SampleBranches}

\* the longest list of parts at the top of a payload
MaxParts ==
    2

SampleParts ==
    SeqsUpTo(SampleLeaves \cup SampleNodes, MaxParts)

\* ------------------------------------------------------------------------
\* State
\* ------------------------------------------------------------------------

VARIABLES
    h,                  \* the last stage function applied on its own: [call, args, ret]
    env,                \* the required keys of the environment, present or not
    pc,                 \* where the request to /process-emails stands
    backend,            \* the model backend: "up", or "down" for good
    faults,             \* requests that have failed on their own so far
    threads,            \* the batch the thread list returned
    cur,                \* the index of the running loop (i)
    processed_emails,   \* the records, in the order they were appended
    successful_syncs,   \* pages created in the sync destination
    pages,              \* the properties of the pages created
    log,                \* the requests made to the mail source, the model, the destination
    outcome,            \* how run_assistant ended
    response            \* what the endpoint answered

runVars ==
    <<env, pc, backend, faults, threads, cur, processed_emails, successful_syncs, pages, log,
      outcome, response>>

vars ==
    <<h, env, pc, backend, faults, threads, cur, processed_emails, successful_syncs, pages, log,
      outcome, response>>

\* the minimum length of a trimmed body that enters the pipeline
MinContentLength ==
    25

\* the length a stored body is cut to
StoredBodyLength ==
    2500

\* ------------------------------------------------------------------------
\* The stage functions applied to bounded inputs
\* ------------------------------------------------------------------------

Idle ==
    [call |-> "none", args |-> <<>>, ret |-> <<>>]

NoOutcome ==
    [kind |-> "running", exc |-> "", detail |-> "", processed |-> 0, synced |-> 0]

NoResponse ==
    [status |-> "", error_type |-> "", code |-> 0]

\* the service before any request
RunIdle ==
    /\ pc = "idle"
    /\ backend = "up"
    /\ faults = 0
    /\ threads = <<>>
    /\ cur = 0
    /\ processed_emails = <<>>
    /\ successful_syncs = 0
    /\ pages = <<>>
    /\ log = <<>>
    /\ outcome = NoOutcome
    /\ response = NoResponse

FnInit ==
    /\ h = Idle
    /\ env = [OPENAI_API_KEY |-> TRUE, NOTION_TOKEN |-> TRUE, NOTION_DB_ID |-> TRUE]
    /\ RunIdle

\* generate_executive_responses(subject, body, commands, language)
CallResponses ==
    /\ h.call = "none"
    /\ \E body \in SampleBodies, commands \in SampleCommands, o1 \in DraftOutcomes,
          o2 \in DraftOutcomes :
        h' = [call |-> "responses",
              args |-> [body |-> body, commands |-> commands, o1 |-> o1, o2 |-> o2],
              ret |-> generate_executive_responses(body, commands, o1, o2)]
    /\ UNCHANGED runVars

\* Step 6 of the pipeline on the outcome of step 5: the confidence of the
\* first draft under the commands the drafts were made for, and the number
\* written to the synced record.
ScoreResponse ==
    /\ h.call = "responses"
    /\ LET score == calculate_executive_confidence(h.ret.draft1, h.args.commands)
       IN  h' = [call |-> "responses+confidence",
                 args |-> [draft |-> h.ret.draft1, commands |-> h.args.commands,
                           draft2 |-> h.ret.draft2, calls |-> h.ret.calls],
                 ret |-> [score |-> score, synced |-> SyncConfidence(score)]]
    /\ UNCHANGED runVars

\* The "Action Taken" property of step 7 on the outcome of step 5: the label
\* of a record with these drafts and commands.
LabelResponse ==
    /\ h.call = "responses"
    /\ h' = [call |-> "responses+action",
             args |-> [draft |-> h.ret.draft1, commands |-> h.args.commands],
             ret |-> [label |-> determine_executive_action(h.ret.draft1, h.args.commands)]]
    /\ UNCHANGED runVars

\* classify_executive_commands(subject, summary, language)
CallClassify ==
    /\ h.call = "none"
    /\ \E subjectEmpty \in BOOLEAN, summaryEmpty \in BOOLEAN, reply \in ClassifyOutcomes :
        h' = [call |-> "classify",
              args |-> [subjectEmpty |-> subjectEmpty, summaryEmpty |-> summaryEmpty,
                        reply |-> reply],
              ret |-> classify_executive_commands(subjectEmpty, summaryEmpty, reply.o)]
    /\ UNCHANGED runVars

\* assign_executive_team(commands)
CallTeam ==
    /\ h.call = "none"
    /\ \E commands \in CommandLists :
        \E teams \in assign_executive_team(commands) :
            h' = [call |-> "team", args |-> [commands |-> commands],
                  ret |-> [teams |-> teams]]
    /\ UNCHANGED runVars

\* extract_text_from_parts(parts)
CallExtract ==
    /\ h.call = "none"
    /\ \E parts \in SampleParts :
        h' = [call |-> "extract", args |-> [parts |-> parts],
              ret |-> [text |-> extract_text_from_parts(parts)]]
    /\ UNCHANGED runVars

\* the function has returned; the next call starts afresh
Return ==
    /\ h.call # "none"
    /\ h' = Idle
    /\ UNCHANGED runVars

FnNext ==
    \/ CallResponses
    \/ ScoreResponse
    \/ LabelResponse
    \/ CallClassify
    \/ CallTeam
    \/ CallExtract
    \/ Return

SpecFn ==
    FnInit /\ [][FnNext]_vars

\* ------------------------------------------------------------------------
\* The model backend as the run meets it
\* ------------------------------------------------------------------------

\* What the backend may do with the next request: answer, fail this once,
\* or go down for good; once down it fails every request.
DecisionsAt(b, f) ==
    IF b = "down"
    THEN {"down"}
    ELSE {"answer", "outage"} \cup (IF f < MaxFaults THEN {"fault"} ELSE {})

Decisions ==
    DecisionsAt(backend, faults)

OutcomeOf(d, answer) ==
    IF d = "answer" THEN Answers(answer) ELSE Raises(ErrTimeout)

BackendAfter(b, d) ==
    IF d \in {"outage", "down"} THEN "down" ELSE b

FaultsAfter(f, d) ==
    IF d = "fault" THEN f + 1 ELSE f

\* log entries: a request about message id (0: about none), and whether it
\* succeeded
ModelCall(stage, id, d) ==
    [svc |-> "model", op |-> stage, id |-> id, ok |-> d = "answer"]

MailCall(op, id, ok) ==
    [svc |-> "gmail", op |-> op, id |-> id, ok |-> ok]

SyncCall(id, ok) ==
    [svc |-> "notion", op |-> "create", id |-> id, ok |-> ok]

\* ------------------------------------------------------------------------
\* POST /process-emails and run_assistant
\* ------------------------------------------------------------------------

Init ==
    /\ h = Idle
    /\ env \in Environments
    /\ RunIdle

\* run_assistant raises
Raise(exc, why) ==
    /\ pc' = "raised"
    /\ outcome' = [kind |-> "raised", exc |-> exc, detail |-> why, processed |-> 0,
                   synced |-> 0]

\* run_assistant returns a text
Finish(status, processed, synced) ==
    /\ pc' = "returned"
    /\ outcome' = [kind |-> "returned", exc |-> "", detail |-> status,
                   processed |-> processed, synced |-> synced]

\* the loop without its content filter
Kept_unfiltered(m, body) ==
    m.trouble = "none"

\* the content filter: a message enters the pipeline when it was fetched and
\* parsed and its trimmed body has the minimum length
Kept(m, body) ==
    m.trouble = "none" /\ BodyLen(BodyStrip(body)) >= MinContentLength

\* the batches the thread list may return: it names a thread once, so a
\* message that gets a record stands once in a batch; the messages that are
\* dropped or skipped are alike and may repeat; a message without readable
\* text, or with a padded text, is the only one of its batch to pass the
\* content filter
Batches ==
    {b \in SeqsUpTo(Templates, MaxBatch) :
        \A j, k \in 1..Len(b) :
            /\ (j # k /\ b[j] = b[k]) => ~Kept(b[j], MessageBody(b[j].payload))
            /\ (j # k /\ b[j] \in OddTexts) => ~Kept(b[k], MessageBody(b[k].payload))}

\* process_emails calls run_assistant
Trigger ==
    /\ pc = "idle"
    /\ pc' = "load_env"
    /\ UNCHANGED <<h, env, backend, faults, threads, cur, processed_emails, successful_syncs,
                   pages, log, outcome, response>>

\* the required keys are read and checked
LoadEnv ==
    /\ pc = "load_env"
    /\ IF env.OPENAI_API_KEY /\ env.NOTION_TOKEN /\ env.NOTION_DB_ID
       THEN pc' = "openai_init" /\ UNCHANGED outcome
       ELSE Raise("ValueError", "missing_keys")
    /\ UNCHANGED <<h, env, backend, faults, threads, cur, processed_emails, successful_syncs,
                   pages, log, response>>

\* the client is made and the connection verified with one request
InitOpenAI ==
    /\ pc = "openai_init"
    /\ \E d \in Decisions :
        /\ backend' = BackendAfter(backend, d)
        /\ faults' = FaultsAfter(faults, d)
        /\ log' = Append(log, ModelCall("system_check", 0, d))
        /\ IF d = "answer"
           THEN pc' = "gmail_setup" /\ UNCHANGED outcome
           ELSE Raise("ValueError", "openai_init")
    /\ UNCHANGED <<h, env, threads, cur, processed_emails, successful_syncs, pages, response>>

\* delegated credentials and the Gmail service
GmailSetup ==
    /\ pc = "gmail_setup"
    /\ \E ok \in BOOLEAN :
        /\ log' = Append(log, MailCall("setup", 0, ok))
        /\ IF ok
           THEN pc' = "list_threads" /\ UNCHANGED outcome
           ELSE Raise("ValueError", "gmail_setup")
    /\ UNCHANGED <<h, env, backend, faults, threads, cur, processed_emails, successful_syncs,
                   pages, response>>

\* Step 1: the thread list fails
ListThreadsFails ==
    /\ pc = "list_threads"
    /\ log' = Append(log, MailCall("list", 0, FALSE))
    /\ Raise("ValueError", "list_threads")
    /\ UNCHANGED <<h, env, backend, faults, threads, cur, processed_emails, successful_syncs,
                   pages, response>>

\* Step 1: the thread list returns a batch
ListThreads ==
    /\ pc = "list_threads"
    /\ log' = Append(log, MailCall("list", 0, TRUE))
    /\ \E batch \in Batches :
        /\ threads' = batch
        /\ IF batch = <<>>
           THEN Finish("inbox_current", 0, 0) /\ cur' = cur
           ELSE pc' = "messages" /\ cur' = 1 /\ UNCHANGED outcome
    /\ UNCHANGED <<h, env, backend, faults, processed_emails, successful_syncs, pages,
                   response>>

\* a record as step 2 appends it
NewRecord(id, subjectEmpty, body, language) ==
    [mapped_message_id |-> id, subjectEmpty |-> subjectEmpty,
     body |-> BodySlice(body, StoredBodyLength), detected_language |-> language,
     summary |-> [kind |-> "unset", text |-> <<>>, excerpt |-> EmptyText],
     detected_commands |-> <<>>, reply_draft_1 |-> <<>>, reply_draft_2 |-> <<>>,
     tone |-> <<>>, reply_confidence |-> -1,
     written |-> <<"subject", "body", "detected_language">>]

\* the end of one pass of a loop over count items: the next item, or what
\* follows the loop
LoopOn(count, after) ==
    IF cur < count
    THEN cur' = cur + 1 /\ pc' = pc
    ELSE cur' = 1 /\ pc' = after

\* the body of the message loop with the record put at the head of the list
TakeMessage_prepends ==
    LET m == threads[cur]
        body == MessageBody(m.payload)
        kept == Kept(m, body)
    IN  \E d \in Decisions :
            LET det == detect_language_premium(body, OutcomeOf(d, m.says.language))
                called == kept /\ det.calls = 1
            IN  /\ processed_emails' =
                       IF kept
                       THEN <<NewRecord(cur, m.subjectEmpty, body, det.language)>>
                                \o processed_emails
                       ELSE processed_emails
                /\ log' = Append(log, MailCall("get", cur, m.trouble # "fetch"))
                              \o (IF called THEN <<ModelCall("language", cur, d)>> ELSE <<>>)
                /\ backend' = IF called THEN BackendAfter(backend, d) ELSE backend
                /\ faults' = IF called THEN FaultsAfter(faults, d) ELSE faults

\* Step 2, the body of the loop for message cur: fetch, parse, extract,
\* filter, detect the language, append the record
TakeMessage ==
    LET m == threads[cur]
        body == MessageBody(m.payload)
        kept == Kept(m, body)
    IN  \E d \in Decisions :
            LET det == detect_language_premium(body, OutcomeOf(d, m.says.language))
                called == kept /\ det.calls = 1
            IN  /\ processed_emails' =
                       IF kept
                       THEN Append(processed_emails,
                                   NewRecord(cur, m.subjectEmpty, body, det.language))
                       ELSE processed_emails
                /\ log' = Append(log, MailCall("get", cur, m.trouble # "fetch"))
                              \o (IF called THEN <<ModelCall("language", cur, d)>> ELSE <<>>)
                /\ backend' = IF called THEN BackendAfter(backend, d) ELSE backend
                /\ faults' = IF called THEN FaultsAfter(faults, d) ELSE faults

\* the end of the message loop without the test for an empty record list:
\* the later loops have nothing to do and the report is returned
AfterMessage_unchecked ==
    IF cur < Len(threads)
    THEN cur' = cur + 1 /\ pc' = pc /\ UNCHANGED outcome
    ELSE IF processed_emails' = <<>>
    THEN Finish("report", 0, 0) /\ cur' = cur
    ELSE cur' = 1 /\ pc' = "summaries" /\ UNCHANGED outcome

\* Step 2, after message cur: the next message, or the end of the loop
AfterMessage ==
    IF cur < Len(threads)
    THEN cur' = cur + 1 /\ pc' = pc /\ UNCHANGED outcome
    ELSE IF processed_emails' = <<>>
    THEN Finish("none_required", 0, 0) /\ cur' = cur
    ELSE cur' = 1 /\ pc' = "summaries" /\ UNCHANGED outcome

\* step 2 without its try/except: a message that cannot be fetched or parsed
\* ends the run
ProcessMessage_aborts ==
    /\ pc = "messages"
    /\ IF threads[cur].trouble # "none"
       THEN /\ Raise("Exception", "message")
            /\ log' = Append(log, MailCall("get", cur, threads[cur].trouble # "fetch"))
            /\ UNCHANGED <<processed_emails, backend, faults, cur>>
       ELSE TakeMessage /\ AfterMessage
    /\ UNCHANGED <<h, env, threads, successful_syncs, pages, response>>

\* Step 2, one message
ProcessMessage ==
    /\ pc = "messages"
    /\ TakeMessage
    /\ AfterMessage
    /\ UNCHANGED <<h, env, threads, successful_syncs, pages, response>>

\* what the model answers about the message of record r
Says(r) ==
    threads[r.mapped_message_id].says

\* Step 3, one record
Summarize ==
    /\ pc = "summaries"
    /\ LET r == processed_emails[cur]
       IN  \E d \in Decisions :
            LET s == executive_email_summary(r.body, OutcomeOf(d, Says(r).summary))
            IN  /\ processed_emails' = [processed_emails EXCEPT ![cur].summary = s.summary,
                                                            ![cur].written = Append(@, "summary")]
                /\ log' = log \o (IF s.calls = 1
                                  THEN <<ModelCall("summary", r.mapped_message_id, d)>>
                                  ELSE <<>>)
                /\ backend' = IF s.calls = 1 THEN BackendAfter(backend, d) ELSE backend
                /\ faults' = IF s.calls = 1 THEN FaultsAfter(faults, d) ELSE faults
    /\ LoopOn(Len(processed_emails), "commands")
    /\ UNCHANGED <<h, env, threads, successful_syncs, pages, outcome, response>>

\* Step 4, one record
Classify ==
    /\ pc = "commands"
    /\ LET r == processed_emails[cur]
       IN  \E d \in Decisions :
            LET c == classify_executive_commands(r.subjectEmpty, SummaryEmpty(r.summary),
                                                 OutcomeOf(d, Says(r).commands))
            IN  /\ processed_emails' =
                       [processed_emails EXCEPT
                           ![cur].detected_commands = c.commands,
                           ![cur].written = Append(@, "detected_commands")]
                /\ log' = log \o (IF c.calls = 1
                                  THEN <<ModelCall("commands", r.mapped_message_id, d)>>
                                  ELSE <<>>)
                /\ backend' = IF c.calls = 1 THEN BackendAfter(backend, d) ELSE backend
                /\ faults' = IF c.calls = 1 THEN FaultsAfter(faults, d) ELSE faults
    /\ LoopOn(Len(processed_emails), "responses")
    /\ UNCHANGED <<h, env, threads, successful_syncs, pages, outcome, response>>

\* step 5 with the relationship draft requested before the strategic one
Draft_swapped ==
    /\ pc = "responses"
    /\ LET r == processed_emails[cur]
       IN  \E d1 \in Decisions :
            \E d2 \in DecisionsAt(BackendAfter(backend, d1), FaultsAfter(faults, d1)) :
                LET g == generate_executive_responses(r.body, r.detected_commands,
                                                      OutcomeOf(d1, Says(r).draft1),
                                                      OutcomeOf(d2, Says(r).draft2))
                    called == g.calls # <<>>
                IN  /\ processed_emails' =
                           [processed_emails EXCEPT
                               ![cur].reply_draft_1 = g.draft1,
                               ![cur].reply_draft_2 = g.draft2,
                               ![cur].written = @ \o <<"reply_draft_1", "reply_draft_2">>]
                    /\ log' = log \o (IF called
                                      THEN <<ModelCall("draft2", r.mapped_message_id, d2),
                                             ModelCall("draft1", r.mapped_message_id, d1)>>
                                      ELSE <<>>)
                    /\ backend' = IF called
                                  THEN BackendAfter(BackendAfter(backend, d1), d2)
                                  ELSE backend
                    /\ faults' = IF called
                                 THEN FaultsAfter(FaultsAfter(faults, d1), d2)
                                 ELSE faults
    /\ LoopOn(Len(processed_emails), "metrics")
    /\ UNCHANGED <<h, env, threads, successful_syncs, pages, outcome, response>>

\* Step 5, one record: the two drafts
Draft ==
    /\ pc = "responses"
    /\ LET r == processed_emails[cur]
       IN  \E d1 \in Decisions :
            \E d2 \in DecisionsAt(BackendAfter(backend, d1), FaultsAfter(faults, d1)) :
                LET g == generate_executive_responses(r.body, r.detected_commands,
                                                      OutcomeOf(d1, Says(r).draft1),
                                                      OutcomeOf(d2, Says(r).draft2))
                    called == g.calls # <<>>
                IN  /\ processed_emails' =
                           [processed_emails EXCEPT
                               ![cur].reply_draft_1 = g.draft1,
                               ![cur].reply_draft_2 = g.draft2,
                               ![cur].written = @ \o <<"reply_draft_1", "reply_draft_2">>]
                    /\ log' = log \o (IF called
                                      THEN <<ModelCall("draft1", r.mapped_message_id, d1),
                                             ModelCall("draft2", r.mapped_message_id, d2)>>
                                      ELSE <<>>)
                    /\ backend' = IF called
                                  THEN BackendAfter(BackendAfter(backend, d1), d2)
                                  ELSE backend
                    /\ faults' = IF called
                                 THEN FaultsAfter(FaultsAfter(faults, d1), d2)
                                 ELSE faults
    /\ LoopOn(Len(processed_emails), "metrics")
    /\ UNCHANGED <<h, env, threads, successful_syncs, pages, outcome, response>>

\* step 6 with the confidence written before the tone
Analyze_confidence_first ==
    /\ pc = "metrics"
    /\ LET r == processed_emails[cur]
       IN  \E d \in Decisions :
            LET t == analyze_business_tone(r.body, OutcomeOf(d, Says(r).tone))
            IN  /\ processed_emails' =
                       [processed_emails EXCEPT
                           ![cur].tone = t.tone,
                           ![cur].reply_confidence =
                               calculate_executive_confidence(r.reply_draft_1,
                                                              r.detected_commands),
                           ![cur].written = @ \o <<"reply_confidence", "tone">>]
                /\ log' = log \o (IF t.calls = 1
                                  THEN <<ModelCall("tone", r.mapped_message_id, d)>>
                                  ELSE <<>>)
                /\ backend' = IF t.calls = 1 THEN BackendAfter(backend, d) ELSE backend
                /\ faults' = IF t.calls = 1 THEN FaultsAfter(faults, d) ELSE faults
    /\ LoopOn(Len(processed_emails), "notion")
    /\ UNCHANGED <<h, env, threads, successful_syncs, pages, outcome, response>>

\* Step 6, one record: tone and confidence
Analyze ==
    /\ pc = "metrics"
    /\ LET r == processed_emails[cur]
       IN  \E d \in Decisions :
            LET t == analyze_business_tone(r.body, OutcomeOf(d, Says(r).tone))
            IN  /\ processed_emails' =
                       [processed_emails EXCEPT
                           ![cur].tone = t.tone,
                           ![cur].reply_confidence =
                               calculate_executive_confidence(r.reply_draft_1,
                                                              r.detected_commands),
                           ![cur].written = @ \o <<"tone", "reply_confidence">>]
                /\ log' = log \o (IF t.calls = 1
                                  THEN <<ModelCall("tone", r.mapped_message_id, d)>>
                                  ELSE <<>>)
                /\ backend' = IF t.calls = 1 THEN BackendAfter(backend, d) ELSE backend
                /\ faults' = IF t.calls = 1 THEN FaultsAfter(faults, d) ELSE faults
    /\ LoopOn(Len(processed_emails), "notion")
    /\ UNCHANGED <<h, env, threads, successful_syncs, pages, outcome, response>>

\* Step 7: the destination client cannot be made
NotionFails ==
    /\ pc = "notion"
    /\ Finish("sync_failed", Len(processed_emails), 0)
    /\ log' = Append(log, [svc |-> "notion", op |-> "connect", id |-> 0, ok |-> FALSE])
    /\ UNCHANGED <<h, env, backend, faults, threads, cur, processed_emails, successful_syncs,
                   pages, response>>

\* Step 7: the destination client is made
NotionConnect ==
    /\ pc = "notion"
    /\ pc' = "sync"
    /\ cur' = 1
    /\ successful_syncs' = 0
    /\ log' = Append(log, [svc |-> "notion", op |-> "connect", id |-> 0, ok |-> TRUE])
    /\ UNCHANGED <<h, env, backend, faults, threads, processed_emails, pages, outcome,
                   response>>

\* the properties of the page made for a record
Page(r) ==
    [id |-> r.mapped_message_id,
     confidence |-> SyncConfidence(r.reply_confidence),
     action |-> determine_executive_action(r.reply_draft_1, r.detected_commands),
     teams |-> TeamNames(r.detected_commands)]

\* step 7 without its inner try/except: a page that cannot be created ends
\* the run
Sync_unguarded ==
    /\ pc = "sync"
    /\ LET r == processed_emails[cur]
       IN  \E ok \in {TRUE} \cup (IF faults < MaxFaults THEN {FALSE} ELSE {}) :
            /\ log' = Append(log, SyncCall(r.mapped_message_id, ok))
            /\ successful_syncs' = IF ok THEN successful_syncs + 1 ELSE successful_syncs
            /\ pages' = IF ok THEN Append(pages, Page(r)) ELSE pages
            /\ faults' = IF ok THEN faults ELSE faults + 1
            /\ IF ~ok
               THEN Raise("Exception", "sync") /\ cur' = cur
               ELSE IF cur < Len(processed_emails)
               THEN cur' = cur + 1 /\ pc' = pc /\ UNCHANGED outcome
               ELSE Finish("report", Len(processed_emails), successful_syncs') /\ cur' = cur
    /\ UNCHANGED <<h, env, backend, threads, processed_emails, response>>

\* step 7 counting every request, answered or not
Sync_counts_attempts ==
    /\ pc = "sync"
    /\ LET r == processed_emails[cur]
       IN  \E ok \in {TRUE} \cup (IF faults < MaxFaults THEN {FALSE} ELSE {}) :
            /\ log' = Append(log, SyncCall(r.mapped_message_id, ok))
            /\ successful_syncs' = successful_syncs + 1
            /\ pages' = IF ok THEN Append(pages, Page(r)) ELSE pages
            /\ faults' = IF ok THEN faults ELSE faults + 1
    /\ IF cur < Len(processed_emails)
       THEN cur' = cur + 1 /\ pc' = pc /\ UNCHANGED outcome
       ELSE Finish("report", Len(processed_emails), successful_syncs') /\ cur' = cur
    /\ UNCHANGED <<h, env, backend, threads, processed_emails, response>>

\* Step 7, one record: the page is created or the request fails; after the
\* last record the report is returned
Sync ==
    /\ pc = "sync"
    /\ LET r == processed_emails[cur]
       IN  \E ok \in {TRUE} \cup (IF faults < MaxFaults THEN {FALSE} ELSE {}) :
            /\ log' = Append(log, SyncCall(r.mapped_message_id, ok))
            /\ successful_syncs' = IF ok THEN successful_syncs + 1 ELSE successful_syncs
            /\ pages' = IF ok THEN Append(pages, Page(r)) ELSE pages
            /\ faults' = IF ok THEN faults ELSE faults + 1
    /\ IF cur < Len(processed_emails)
       THEN cur' = cur + 1 /\ pc' = pc /\ UNCHANGED outcome
       ELSE Finish("report", Len(processed_emails), successful_syncs') /\ cur' = cur
    /\ UNCHANGED <<h, env, backend, threads, processed_emails, response>>

\* the commands the report counts as high priority
ReportStrategicCommands ==
    {"strategic_partnership", "investment_inquiry", "executive_meeting",
     "vip_client_request"}

\* the records the report counts as high-priority items
priority_count ==
    Cardinality({k \in 1..Len(processed_emails) :
                    \E j \in 1..Len(processed_emails[k].detected_commands) :
                        processed_emails[k].detected_commands[j] \in ReportStrategicCommands})

\* a returned text that states the batch size where the record count stands
ReportedStats_batch ==
    IF outcome.kind # "returned" \/ outcome.detail = "inbox_current"
    THEN <<>>
    ELSE IF outcome.detail = "none_required"
    THEN [scanned |-> Len(threads)]
    ELSE IF outcome.detail = "sync_failed"
    THEN [processed |-> Len(threads)]
    ELSE [processed |-> Len(threads), priority |-> priority_count,
          synced |-> outcome.synced]

\* the counts the text returned by run_assistant states, by name: the
\* report names the records processed, the high-priority items and the
\* records synced; the text of a failed connection names the records
\* processed; the text of a run without records names the messages scanned;
\* the text of an empty inbox names no count
ReportedStats ==
    IF outcome.kind # "returned" \/ outcome.detail = "inbox_current"
    THEN <<>>
    ELSE IF outcome.detail = "none_required"
    THEN [scanned |-> Len(threads)]
    ELSE IF outcome.detail = "sync_failed"
    THEN [processed |-> outcome.processed]
    ELSE [processed |-> outcome.processed, priority |-> priority_count,
          synced |-> outcome.synced]

\* process_emails answers the request
Respond ==
    /\ pc \in {"returned", "raised"}
    /\ pc' = "responded"
    /\ response' =
           IF outcome.kind = "returned"
           THEN [status |-> "success", error_type |-> "", code |-> 200]
           ELSE IF outcome.exc = "ValueError"
           THEN [status |-> "error", error_type |-> "configuration", code |-> 400]
           ELSE [status |-> "error", error_type |-> "processing", code |-> 500]
    /\ UNCHANGED <<h, env, backend, faults, threads, cur, processed_emails, successful_syncs,
                   pages, log, outcome>>

Next ==
    \/ Trigger
    \/ LoadEnv
    \/ InitOpenAI
    \/ GmailSetup
    \/ ListThreadsFails
    \/ ListThreads
    \/ ProcessMessage
    \/ Summarize
    \/ Classify
    \/ Draft
    \/ Analyze
    \/ NotionFails
    \/ NotionConnect
    \/ Sync
    \/ Respond

Spec ==
    Init /\ [][Next]_vars

\* ------------------------------------------------------------------------
\* Claims about the stage functions (specification SpecFn)
\* ------------------------------------------------------------------------

\* a draft value the drafter emits for "skipped": one of its two guard
\* values, or the skip token returned by the model
IsSkipSentinel(draft) ==
    \/ draft = NON_ACTIONABLE
    \/ draft = INSUFFICIENT_CONTENT
    \/ Lower(draft) = Lower(ReplySkipToken)

\* the gateway's failure sentinel
IsUnavailableSentinel(draft) ==
    StartsWith(draft, UNAVAILABLE_HEAD)

\* the drafter has run and its first draft has been scored
Scored ==
    h.call = "responses+confidence"

C3_ZeroIffSentinel ==
    Scored => (h.ret.score = 0
                 <=> (IsSkipSentinel(h.args.draft) \/ IsUnavailableSentinel(h.args.draft)))

\* the sums the scorer can reach from its baseline with its three bonuses
BonusSums ==
    {70 + s + m + p : s \in {0, 15}, m \in {0, 10}, p \in {0, 5}}

\* C4: the confidence is an integer in 0..100: 0 or 25 from the guards, else
\* the baseline plus non-negative bonuses, clamped at 100; the number written
\* to the synced record is in 0..100 too.
C4_ScoreInRange ==
    Scored => /\ h.ret.score \in 0..100
              /\ h.ret.score \in {0, 25} \cup {Min(s, 100) : s \in BonusSums}
              /\ h.ret.synced \in 0..100
              /\ h.ret.synced = h.ret.score

\* C4 witness: a scored draft with every bonus, at the clamp
C4_Witness ==
    Scored /\ h.ret.score = 100 /\ h.ret.synced = 100

AssociatedTeams(commands) ==
    {TeamOf(commands[i]) : i \in 1..Len(commands)} \ {""}

\* C6: the routing resolver returns a non-empty list without repetitions
\* whose elements are the union of the teams of the input commands, the
\* default team alone when no command has a team, and a list of commands
\* with the same elements in another order or number gives the same teams.
C6_TeamsAreTheUnion ==
    h.call = "team" =>
        LET teams == h.ret.teams
            commands == h.args.commands
        IN  /\ teams # <<>>
            /\ \A i, j \in 1..Len(teams) : teams[i] = teams[j] => i = j
            /\ Range(teams) = IF AssociatedTeams(commands) = {}
                              THEN {"Executive Office"}
                              ELSE AssociatedTeams(commands)
            /\ \A other \in CommandLists :
                   Range(other) = Range(commands) =>
                       assign_executive_team(other) = assign_executive_team(commands)

\* two teams from three commands, one of them repeated
C6_Witness ==
    /\ h.call = "team"
    /\ h.args.commands = <<"legal_inquiry", "strategic_partnership", "investment_inquiry">>
    /\ Range(h.ret.teams) = {"Strategy", "Legal"}
    /\ Len(h.ret.teams) = 2

\* ------------------------------------------------------------------------
\* Properties of the run and of the endpoint (specification Spec)
\* ------------------------------------------------------------------------

KeysMissing ==
    ~(env.OPENAI_API_KEY /\ env.NOTION_TOKEN /\ env.NOTION_DB_ID)

\* the run has ended
Ended ==
    pc \in {"returned", "raised", "responded"}

\* the positions of the log that hold requests to the model backend
ModelCalls ==
    {k \in 1..Len(log) : log[k].svc = "model"}

\* the ids of the messages that have a record, in the order of the records
RecordIds ==
    [k \in 1..Len(processed_emails) |-> processed_emails[k].mapped_message_id]

\* message k of the batch has a trimmed body under the minimum length
ShortBody(k) ==
    BodyLen(BodyStrip(MessageBody(threads[k].payload))) < MinContentLength

\* message k of the batch is untouched by the pipeline: no record, no request
\* of any stage to the model, no page
Untouched(k) ==
    /\ \A j \in 1..Len(processed_emails) : processed_emails[j].mapped_message_id # k
    /\ \A j \in 1..Len(log) : log[j].svc \in {"model", "notion"} => log[j].id # k
    /\ \A j \in 1..Len(pages) : pages[j].id # k

\* C1: a message of the batch whose extracted body is shorter than 25
\* characters after trimming never gets a record, no derivation stage ever
\* calls the model for it, and no page is synced for it.
C1_ShortBodyUntouched ==
    \A k \in 1..Len(threads) : ShortBody(k) => Untouched(k)

\* a run over a short message and a long one has ended with its report
C1_Witness ==
    /\ outcome.detail = "report"
    /\ threads = <<MsgShort, MsgInvoice>>
    /\ RecordIds = <<2>>
    /\ Len(pages) = 1

\* the messages of the batch that are fetched, parsed and pass the filter
Survivors ==
    {k \in 1..Len(threads) : Kept(threads[k], MessageBody(threads[k].payload))}

\* record r has every derived field written
Complete(r) ==
    /\ r.summary.kind # "unset"
    /\ r.detected_commands # <<>>
    /\ r.tone # <<>>
    /\ r.reply_confidence >= 0

\* C7: a message that cannot be fetched or parsed is skipped alone: once the
\* message loop is over the records are those of exactly the other messages
\* that pass the content filter, in batch order, wherever the failing
\* message stood, and a run that reports has completed each of them.
C7_FailureSkipsOneMessage ==
    /\ pc # "messages" =>
           /\ {RecordIds[j] : j \in 1..Len(processed_emails)} = Survivors
           /\ \A j \in 1..Len(processed_emails) - 1 : RecordIds[j] < RecordIds[j + 1]
    /\ ~(outcome.kind = "raised" /\ threads # <<>>)
    /\ outcome.detail \in {"report", "sync_failed"} =>
           \A j \in 1..Len(processed_emails) : Complete(processed_emails[j])

\* a batch whose first message cannot be fetched: the second has its record
C7_Witness ==
    /\ outcome.detail = "report"
    /\ threads = <<MsgGone, MsgInvoice>>
    /\ RecordIds = <<2>>
    /\ Complete(processed_emails[1])

\* every request the run sent to the model backend failed
SustainedOutage ==
    /\ ModelCalls # {}
    /\ \A k \in ModelCalls : ~log[k].ok

\* the backend answered the start-up check and failed every later request
OutageAfterStartup ==
    /\ ModelCalls # {}
    /\ \A k \in ModelCalls : log[k].ok <=> log[k].op = "system_check"

BothDraftsUnavailable(r) ==
    IsUnavailableSentinel(r.reply_draft_1) /\ IsUnavailableSentinel(r.reply_draft_2)

StageFailed(stage, id) ==
    \E k \in ModelCalls : log[k].op = stage /\ log[k].id = id /\ ~log[k].ok

StartupCallFailed ==
    \E k \in 1..Len(log) : log[k].op \in {"system_check", "setup", "list"} /\ ~log[k].ok

\* a call inside the loops failed
LoopCallFailed ==
    \E k \in 1..Len(log) :
        log[k].op \notin {"system_check", "setup", "list"} /\ ~log[k].ok

C10_ConfigurationKindIffKeysMissing ==
    pc = "responded" =>
        /\ response.error_type = "configuration" <=> KeysMissing
        /\ response.error_type = "configuration" => log = <<>>
        /\ (outcome.kind = "raised" /\ ~KeysMissing) =>
               (response.status = "error" /\ response.error_type # "configuration")

\* ------------------------------------------------------------------------
\* The empty batch, the order of the work, the stages of a record
\* ------------------------------------------------------------------------

\* the thread list has been returned to the run
Listed ==
    \E k \in 1..Len(log) : log[k].op = "list" /\ log[k].ok

\* the stages that derive the fields of a record after its language
DerivationStages ==
    {"summary", "commands", "draft1", "draft2", "tone"}

\* C11: when the thread list is empty, or no message of the batch is fetched,
\* parsed and long enough, the run returns a status of its own and not the
\* report; it does not raise, has no record, sends the model no request of a
\* derivation stage and sends the destination nothing.
C11_NoWorkReturns ==
    (Listed /\ Survivors = {} /\ pc \notin {"list_threads", "messages"}) =>
        /\ outcome.kind = "returned"
        /\ outcome.detail = (IF threads = <<>> THEN "inbox_current" ELSE "none_required")
        /\ outcome.detail # "report"
        /\ outcome.processed = 0
        /\ processed_emails = <<>>
        /\ \A k \in 1..Len(log) :
               /\ log[k].op \notin DerivationStages
               /\ log[k].svc # "notion"

\* a batch of a short message and one that cannot be fetched has been gone
\* through
C11_Witness ==
    /\ threads = <<MsgShort, MsgGone>>
    /\ outcome.detail = "none_required"
    /\ pc = "responded"
    /\ response.status = "success"

\* the ids of the records the destination was asked to create a page for, in
\* the order of the requests
CreateIds ==
    LET calls == SelectSeq(log, LAMBDA e : e.svc = "notion" /\ e.op = "create")
    IN  [k \in 1..Len(calls) |-> calls[k].id]

Increasing(ids) ==
    \A a, b \in 1..Len(ids) : a < b => ids[a] < ids[b]

\* C12: the records stand in the record list, and are handed to the
\* destination, in the order in which the batch held their messages, also
\* with dropped or failing messages between them; a run that reports has
\* handed over every record.
C12_BatchOrderKept ==
    /\ Increasing(RecordIds)
    /\ Increasing(CreateIds)
    /\ Increasing([k \in 1..Len(pages) |-> pages[k].id])
    /\ \A k \in 1..Len(CreateIds) : CreateIds[k] = RecordIds[k]
    /\ outcome.detail = "report" => CreateIds = RecordIds

\* two records of a batch with a failing message between their messages
\* have been handed over
C12_Witness ==
    /\ threads = <<MsgInvoice, MsgGone, MsgPartner>>
    /\ outcome.detail = "report"
    /\ RecordIds = <<1, 3>>
    /\ CreateIds = <<1, 3>>

\* the step of the run that sends a request of this kind to the model
StepOf(op) ==
    CASE op = "system_check" -> 0
      [] op = "language" -> 2
      [] op = "summary" -> 3
      [] op = "commands" -> 4
      [] op \in {"draft1", "draft2"} -> 5
      [] op = "tone" -> 6

\* C13 as stated: the requests to the model about one message are all made
\* before the first request about the next message; requests about two
\* messages are never interleaved.
C13_OneMessageAtATime ==
    \A a, b, c \in ModelCalls :
        (a < b /\ b < c /\ log[a].id > 0 /\ log[a].id = log[c].id) => log[b].id = log[a].id

\* C13 as the code has it: the run goes step by step, not message by
\* message: the requests of one step are made for every record, in batch
\* order, before the first request of the next step, and the strategic draft
\* of a record is requested before its relationship draft.
C13_StepByStep ==
    \A a, b \in ModelCalls :
        a < b =>
            \/ StepOf(log[a].op) < StepOf(log[b].op)
            \/ /\ StepOf(log[a].op) = StepOf(log[b].op)
               /\ \/ log[a].id < log[b].id
                  \/ log[a].id = log[b].id /\ log[a].op = "draft1" /\ log[b].op = "draft2"

\* a reported run over two records: the summary of the second was requested
\* between two requests about the first
C13_Witness ==
    /\ outcome.detail = "report"
    /\ Len(processed_emails) = 2
    /\ \E a, b, c \in ModelCalls :
           /\ a < b /\ b < c
           /\ log[a].op = "summary" /\ log[a].id = RecordIds[1]
           /\ log[b].op = "summary" /\ log[b].id = RecordIds[2]
           /\ log[c].op = "draft2" /\ log[c].id = RecordIds[1]

\* the derived fields of a record, in the order of the stages
StageFields ==
    <<"detected_language", "summary", "detected_commands", "reply_draft_1", "reply_draft_2",
      "tone", "reply_confidence">>

\* the fields of the record that the stage writing a field reads
ReadsOf(field) ==
    CASE field = "summary" -> {"body", "detected_language"}
      [] field = "detected_commands" -> {"subject", "summary", "detected_language"}
      [] field \in {"reply_draft_1", "reply_draft_2"} ->
             {"subject", "body", "detected_commands", "detected_language"}
      [] field = "tone" -> {"body", "detected_language"}
      [] field = "reply_confidence" -> {"reply_draft_1", "detected_commands"}
      [] OTHER -> {}

\* the derived fields among the fields written to a record, in the order
\* they were written
DerivedWritten(r) ==
    SelectSeq(r.written, LAMBDA f : f \in Range(StageFields))

\* C14: the derived fields of every record are written in the order
\* language, summary, commands, draft 1, draft 2, tone, confidence, each
\* once, and a stage reads only fields written before its own; a run that
\* reports has written them all.
C14_StagesInOrder ==
    \A k \in 1..Len(processed_emails) :
        LET r == processed_emails[k]
            w == r.written
        IN  /\ DerivedWritten(r) = SubSeq(StageFields, 1, Len(DerivedWritten(r)))
            /\ \A a, b \in 1..Len(w) : w[a] = w[b] => a = b
            /\ \A a \in 1..Len(w) : ReadsOf(w[a]) \subseteq {w[b] : b \in 1..(a - 1)}
            /\ outcome.detail \in {"report", "sync_failed"} => DerivedWritten(r) = StageFields

\* a reported run: the first record has every derived field, written once
C14_Witness ==
    /\ outcome.detail = "report"
    /\ Len(processed_emails) = 2
    /\ DerivedWritten(processed_emails[1]) = StageFields
    /\ processed_emails[1].reply_confidence > 25

\* ------------------------------------------------------------------------
\* Labels, teams and scores of drafted records (specification SpecFn)
\* ------------------------------------------------------------------------

\* the drafter has run and its first draft has been labelled
Labelled ==
    h.call = "responses+action"

\* C15: the label is decided top to bottom: Skip for a skip sentinel in the
\* first draft (the one for no-action commands included), else AI Review
\* Required for the unavailable sentinel, else Executive Priority for a
\* high-priority command, else Response Drafted.
C15_FirstMatchLabel ==
    Labelled =>
        h.ret.label =
            IF IsSkipSentinel(h.args.draft)
            THEN "Skip"
            ELSE IF IsUnavailableSentinel(h.args.draft)
            THEN "AI Review Required"
            ELSE IF AnyCommand(<<"strategic_partnership", "investment_inquiry",
                                 "executive_meeting">>, h.args.commands)
            THEN "Executive Priority"
            ELSE "Response Drafted"

\* the commands of billing
BillingCommands ==
    {"send_invoice", "billing_question"}

\* the routing resolver has been applied to commands with a billing command
RoutedBilling ==
    /\ h.call = "team"
    /\ Range(h.args.commands) \cap BillingCommands # {}

\* C16 as stated: commands that contain send_invoice or billing_question
\* resolve to a team mapped for them, not to the default team.
C16_BillingHasItsTeam ==
    RoutedBilling => Range(h.ret.teams) # {"Executive Office"}

\* C16 as the code has it: send_invoice and billing_question have no team:
\* the result is the teams of the other commands of the list, and the
\* default team alone when those have none.
C16_BillingAddsNoTeam ==
    RoutedBilling =>
        LET others == SelectSeq(h.args.commands, LAMBDA c : c \notin BillingCommands)
        IN  /\ h.ret.teams \in assign_executive_team(others)
            /\ AssociatedTeams(others) = {} => h.ret.teams = <<"Executive Office">>

\* the two billing commands alone have been resolved to the default team
C16_Witness ==
    /\ h.call = "team"
    /\ h.args.commands = <<"send_invoice", "billing_question">>
    /\ h.ret.teams = <<"Executive Office">>

\* the first draft of actionable commands has been scored
ScoredActionable ==
    Scored /\ ~InList("no_action", h.args.commands)

\* C17 as stated: for actionable commands, a draft without the marker of
\* the gateway's failure is scored 60 or more.
C17_ActionableScoresSixty ==
    (ScoredActionable /\ ~Contains(Lower(h.args.draft), MARK_AI_SERVICE)) =>
        h.ret.score >= 60

\* C17 as the code has it: for actionable commands, a draft that is not
\* empty and holds neither marker the scorer looks for is scored 60 or more;
\* an empty draft is scored 0.
C17_NonEmptyActionableScoresSixty ==
    /\ ( /\ ScoredActionable
         /\ h.args.draft # <<>>
         /\ ~Contains(Lower(h.args.draft), MARK_AI_SERVICE)
         /\ ~Contains(Lower(h.args.draft), MARK_EXECUTIVE_SKIP) ) => h.ret.score >= 60
    /\ (Scored /\ h.args.draft = <<>>) => h.ret.score = 0

\* a plain reply to billing commands has been scored at the baseline
C17_Witness ==
    /\ Scored
    /\ h.args.commands = <<"send_invoice", "billing_question">>
    /\ h.args.draft = ReplyPlain
    /\ h.ret.score = 70

\* ------------------------------------------------------------------------
\* Failures of the summarizer and of the destination (specification Spec)
\* ------------------------------------------------------------------------

\* the request of a stage about message id was made
StageCalled(stage, id) ==
    \E k \in ModelCalls : log[k].op = stage /\ log[k].id = id

\* C18: a record whose summary request failed has the fallback text around
\* the first 100 characters of its body as its summary, not the gateway's
\* sentinel; the run does not raise, the classification of the record is
\* requested with that summary, and a run that ends its stages has
\* completed this record and the others.
C18_SummaryFallsBack ==
    \A k \in 1..Len(processed_emails) :
        LET r == processed_emails[k]
        IN  StageFailed("summary", r.mapped_message_id) =>
                /\ r.summary = FallbackSummary(r.body)
                /\ ~SummaryEmpty(r.summary)
                /\ outcome.kind # "raised"
                /\ r.detected_commands # <<>> => StageCalled("commands", r.mapped_message_id)
                /\ outcome.detail \in {"report", "sync_failed"} =>
                       \A j \in 1..Len(processed_emails) : Complete(processed_emails[j])

\* a reported run over two records: the summary request of the first
\* failed, that of the second was answered, and the first was classified
C18_Witness ==
    /\ outcome.detail = "report"
    /\ Len(processed_emails) = 2
    /\ StageFailed("summary", RecordIds[1])
    /\ processed_emails[1].summary.kind = "fallback"
    /\ processed_emails[2].summary.kind = "model"
    /\ \E k \in ModelCalls : log[k].op = "commands" /\ log[k].id = RecordIds[1] /\ log[k].ok

\* the requests to create a page, in the order they were made
CreateCalls ==
    SelectSeq(log, LAMBDA e : e.svc = "notion" /\ e.op = "create")

\* the number of page requests that were answered
CreatedCount ==
    Len(SelectSeq(CreateCalls, LAMBDA e : e.ok))

\* C19: the destination is asked at most once per record and in the order
\* of the records; a failed request is not counted and the next record is
\* still handed over, so a reporting run has asked exactly once per record
\* and reports as synced the number of answered requests, never more than
\* the number of records; when the connection to the destination fails no
\* page is requested and the run returns with the number of records.
C19_SyncFailuresIsolated ==
    /\ Len(CreateCalls) <= Len(processed_emails)
    /\ \A k \in 1..Len(CreateCalls) : CreateCalls[k].id = RecordIds[k]
    /\ pc \in {"sync", "returned", "responded"} /\ outcome.detail # "sync_failed" =>
           /\ successful_syncs = CreatedCount
           /\ Len(pages) = CreatedCount
    /\ outcome.detail = "report" =>
           /\ outcome.kind = "returned"
           /\ Len(CreateCalls) = Len(processed_emails)
           /\ outcome.synced = CreatedCount
           /\ outcome.synced <= Len(processed_emails)
           /\ outcome.processed = Len(processed_emails)
    /\ (\E k \in 1..Len(log) :
            log[k].svc = "notion" /\ log[k].op = "connect" /\ ~log[k].ok) =>
           /\ CreateCalls = <<>>
           /\ pages = <<>>
           /\ outcome.kind = "returned"
           /\ outcome.detail = "sync_failed"
           /\ outcome.processed = Len(processed_emails)
           /\ outcome.processed > 0

\* a reported run over two records: the page of the first was refused, the
\* page of the second was made, one record is reported as synced
C19_Witness ==
    /\ outcome.detail = "report"
    /\ Len(processed_emails) = 2
    /\ Len(CreateCalls) = 2
    /\ ~CreateCalls[1].ok
    /\ CreateCalls[2].ok
    /\ outcome.synced = 1
    /\ outcome.processed = 2

\* a run whose connection to the destination failed after two records were
\* computed
C19_ConnectionWitness ==
    /\ outcome.detail = "sync_failed"
    /\ outcome.processed = 2
    /\ CreateCalls = <<>>

\* ------------------------------------------------------------------------
\* The counts of the returned text (specification Spec)
\* ------------------------------------------------------------------------

\* the messages of the batch skipped because their fetch or parse failed
SkippedMessages ==
    {k \in 1..Len(threads) : threads[k].trouble # "none"}

\* the run went through the message loop and returned
ReturnedAfterLoop ==
    /\ outcome.kind = "returned"
    /\ outcome.detail \in {"none_required", "sync_failed", "report"}

Extracted ==
    h.call = "extract"

\* a text/plain part whose payload is present and decodes
DecodablePlain(part) ==
    part.mimeType = "text/plain" /\ part.data.present /\ part.data.decodes

\* the part ends the search of its list: a text/plain part with a decodable
\* payload, or a node whose nested parts yield non-empty text
Decides(part) ==
    \/ DecodablePlain(part)
    \/ /\ part.mimeType # "text/plain"
       /\ part.hasParts
       /\ ~BodyEmpty(extract_text_from_parts(part.parts))

\* what a deciding part gives
Yield(part) ==
    IF DecodablePlain(part) THEN part.data.text ELSE extract_text_from_parts(part.parts)

RECURSIVE LeafTexts(_)
\* the texts of the decodable text/plain leaves anywhere under the parts
LeafTexts(parts) ==
    IF parts = <<>>
    THEN {}
    ELSE LET part == Head(parts)
         IN  (IF DecodablePlain(part) /\ ~part.hasParts THEN {part.data.text} ELSE {})
             \cup LeafTexts(part.parts) \cup LeafTexts(Tail(parts))

\* C21: the extractor walks a list of parts in order; a text/plain leaf
\* whose payload is absent or fails to decode is passed over, the first
\* text/plain leaf with a decodable payload, or the first node whose nested
\* parts yield non-empty text, gives the result; a non-empty result is the
\* text of a text/plain leaf of the tree, and the result is empty when no
\* part decides.
C21_FirstDecidingPartWins ==
    Extracted =>
        LET parts == h.args.parts
            deciding == {k \in 1..Len(parts) : Decides(parts[k])}
        IN  /\ deciding # {} =>
                   LET first == CHOOSE k \in deciding : \A j \in deciding : k <= j
                   IN  h.ret.text = Yield(parts[first])
            /\ deciding = {} => BodyEmpty(h.ret.text)
            /\ ~BodyEmpty(h.ret.text) => h.ret.text \in LeafTexts(parts)
            /\ (\A t \in LeafTexts(parts) : BodyEmpty(t)) => BodyEmpty(h.ret.text)

\* a leaf whose payload fails to decode is passed over and the text is
\* found in the plain alternative of the node after it
C21_Witness ==
    /\ Extracted
    /\ h.args.parts = <<PlainBad, Multipart("multipart/alternative", <<Html, PlainA>>)>>
    /\ h.ret.text = PlainA.data.text

\* C23: the extractor returns the empty string only when no text/plain leaf
\* of the tree has a payload that decodes to non-empty text.
C23_EmptyOnlyWithoutText ==
    Extracted /\ BodyEmpty(h.ret.text) =>
        \A t \in LeafTexts(h.args.parts) : BodyEmpty(t)

\* ------------------------------------------------------------------------
\* The reply drafter's two requests (specification SpecFn)
\* ------------------------------------------------------------------------

\* the drafter was applied to actionable commands and a body with at least
\* ten characters that are not blank
DraftedActionable ==
    /\ h.call = "responses"
    /\ h.args.commands # <<>>
    /\ ~InList("no_action", h.args.commands)
    /\ h.args.body.core >= 10

\* what a draft is after the backend did o with its request: the failure
\* sentinel around the error, or the reply without the whitespace at its ends
DraftOf(o, draft) ==
    IF o.raises
    THEN IsUnavailableSentinel(draft) /\ Contains(draft, o.text)
    ELSE draft = Strip(o.text)

NoTextRecovered(m) ==
    /\ m.trouble = "none"
    /\ BodyEmpty(extract_text_from_parts(m.payload.parts))
    /\ ~(m.payload.body.present /\ m.payload.body.decodes)

\* message k of the batch has been through the body of the message loop
Fetched(k) ==
    \E j \in 1..Len(log) : log[j].svc = "gmail" /\ log[j].op = "get" /\ log[j].id = k

\* the records of message k
RecordsOf(k) ==
    {j \in 1..Len(processed_emails) : processed_emails[j].mapped_message_id = k}

\* C24: a message from which no text can be recovered gets a placeholder
\* body that is not shorter than the minimum content length; once it has
\* been through the message loop it has a record with that body and the
\* model was asked for its language, and a run that ends its stages has
\* asked for its summary and completed its record.
C24_PlaceholderEntersPipeline ==
    \A k \in 1..Len(threads) :
        NoTextRecovered(threads[k]) =>
            LET body == MessageBody(threads[k].payload)
            IN  /\ body = IF threads[k].payload.body.present
                          THEN Body(0, Len(CONTENT_EXTRACTION_REQUIRED), 0)
                          ELSE Body(0, Len(NO_READABLE_CONTENT), 0)
                /\ BodyLen(BodyStrip(body)) >= MinContentLength
                /\ Fetched(k) =>
                       /\ Cardinality(RecordsOf(k)) = 1
                       /\ \A j \in RecordsOf(k) : processed_emails[j].body = body
                       /\ StageCalled("language", k)
                /\ outcome.detail \in {"report", "sync_failed"} =>
                       /\ StageCalled("summary", k)
                       /\ \A j \in RecordsOf(k) : Complete(processed_emails[j])

\* a reported run whose message has no text and a top-level payload that
\* fails to decode: its record holds the 47 characters of the placeholder
\* and a page was made for it
C24_Witness ==
    /\ outcome.detail = "report"
    /\ threads = <<MsgBadPayload>>
    /\ Len(processed_emails) = 1
    /\ processed_emails[1].body = Body(0, 47, 0)
    /\ \E j \in ModelCalls : log[j].op = "summary" /\ log[j].id = 1 /\ log[j].ok
    /\ Len(pages) = 1

\* the same for a message without parts and without a payload
C24_NoPayloadWitness ==
    /\ outcome.detail = "report"
    /\ threads = <<MsgNoText>>
    /\ processed_emails[1].body = Body(0, 49, 0)
    /\ Len(pages) = 1

\* C25: every record stores a body whose trimmed length is still at least
\* the minimum content length, so no record carries the minimal-content
\* summary or the insufficient-content draft, and the tone of every record
\* was asked of the model.
C25_StoredBodyKeepsLength ==
    \A k \in 1..Len(processed_emails) :
        LET r == processed_emails[k]
        IN  /\ BodyLen(BodyStrip(r.body)) >= MinContentLength
            /\ r.summary.kind # "minimal"
            /\ r.reply_draft_1 # INSUFFICIENT_CONTENT
            /\ r.reply_draft_2 # INSUFFICIENT_CONTENT
            /\ r.tone # <<>> => StageCalled("tone", r.mapped_message_id)

\* ------------------------------------------------------------------------
\* no_action among the commands (specifications SpecFn and Spec)
\* ------------------------------------------------------------------------

\* C26: the classifier returns no_action only as the sole command, never
\* together with another command of the taxonomy.
C26_NoActionStandsAlone ==
    h.call = "classify" /\ InList("no_action", h.ret.commands) =>
        h.ret.commands = <<"no_action">>

\* C27: a record whose classification request failed has exactly no_action
\* as its commands; no drafting request is made for it, both drafts are the
\* non-actionable skip value, not the failure sentinel, and its confidence
\* is the fixed score of a record without action, 25.
C27_FailedClassificationSkips ==
    \A k \in 1..Len(processed_emails) :
        LET r == processed_emails[k]
            id == r.mapped_message_id
        IN  StageFailed("commands", id) =>
                /\ r.detected_commands = <<"no_action">>
                /\ ~StageCalled("draft1", id)
                /\ ~StageCalled("draft2", id)
                /\ r.reply_draft_1 \in {<<>>, NON_ACTIONABLE}
                /\ r.reply_draft_2 \in {<<>>, NON_ACTIONABLE}
                /\ ~IsUnavailableSentinel(r.reply_draft_1)
                /\ r.reply_confidence \in {-1, 25}
                /\ outcome.detail \in {"report", "sync_failed"} =>
                       /\ r.reply_draft_1 = NON_ACTIONABLE
                       /\ r.reply_draft_2 = NON_ACTIONABLE
                       /\ r.reply_confidence = 25

\* a reported run over two records: the classification of the first failed
\* after its summary was answered, the second was classified and drafted
C27_Witness ==
    /\ outcome.detail = "report"
    /\ Len(processed_emails) = 2
    /\ StageFailed("commands", RecordIds[1])
    /\ ~StageFailed("summary", RecordIds[1])
    /\ processed_emails[1].detected_commands = <<"no_action">>
    /\ processed_emails[1].reply_draft_1 = NON_ACTIONABLE
    /\ processed_emails[1].reply_confidence = 25
    /\ StageCalled("draft1", RecordIds[2])
    /\ processed_emails[2].detected_commands # <<"no_action">>
====
